---- MODULE Spec2Model ----
(***************************************************************************)
(* A model of sl-chatmerge.py: the chat-log pipeline sort_chat_log (line   *)
(* endings, segmentation into entries, timestamp normalisation, byte-wise  *)
(* sort, adjacent deduplication, assembly) and merge_and_sync_file, which  *)
(* reads one logical file from the readable directories, runs the pipeline *)
(* over the concatenation and writes the result to the writable ones;      *)
(* and discover_files with should_exclude_file, which choose the files.    *)
(*                                                                         *)
(* Text is a sequence of one-character strings.  The alphabet is ASCII, so *)
(* a character's UTF-8 encoding is the single byte Ord gives.              *)
(***************************************************************************)
EXTENDS Integers, Sequences, FiniteSets, TLC

VARIABLES
    content,        \* sort_chat_log harness: the text handed to the first call
    calls,          \* sort_chat_log harness: how many calls have been made (0..2)
    out,            \* sort_chat_log harness: outcome of the latest call
    prev,           \* sort_chat_log harness: outcome of the call before it
    relative_path,  \* the logical file merge_and_sync_file is called for
    mode,           \* directories: index -> "r" | "w" | "rw"
    fs,             \* directories: index -> raw bytes of the file, or NoFile
    parent,         \* directories: index -> whether the file's parent directory exists
    DRY_RUN,        \* global flag (line 46)
    FORCE,          \* global flag (line 47)
    status,         \* "running", or "exit1" once sys.exit(1) was called
    last,           \* what the latest merge_and_sync_file call did
    found,          \* discover_files: the .txt files under the readable directories
    filters,        \* discover_files: the FILTER arguments
    all_files,      \* discover_files: the relative paths it returned
    scanned         \* discover_files: whether it has run

vars == <<content, calls, out, prev, relative_path, mode, fs, parent,
          DRY_RUN, FORCE, status, last, found, filters, all_files, scanned>>

sortVars == <<content, calls, out, prev>>
syncVars == <<relative_path, mode, fs, parent, DRY_RUN, FORCE, status, last>>
discoverVars == <<found, filters, all_files, scanned>>

-----------------------------------------------------------------------------
(* Characters *)

LF == "\n"
CR == "\r"

Digits == {"0", "1", "2", "3", "4", "5", "6", "7", "8", "9"}

\* int() of one decimal digit
DigitVal(c) ==
    CASE c = "0" -> 0 [] c = "1" -> 1 [] c = "2" -> 2 [] c = "3" -> 3
      [] c = "4" -> 4 [] c = "5" -> 5 [] c = "6" -> 6 [] c = "7" -> 7
      [] c = "8" -> 8 [] c = "9" -> 9

\* str() of one decimal digit
DigitChar(n) ==
    CASE n = 0 -> "0" [] n = 1 -> "1" [] n = 2 -> "2" [] n = 3 -> "3"
      [] n = 4 -> "4" [] n = 5 -> "5" [] n = 6 -> "6" [] n = 7 -> "7"
      [] n = 8 -> "8" [] n = 9 -> "9"

\* The byte entry.encode('utf-8') gives for each character of the alphabet.
Ord(c) ==
    CASE c = "\n" -> 10 [] c = "\r" -> 13 [] c = " " -> 32 [] c = "-" -> 45
      [] c = "." -> 46 [] c = "/" -> 47
      [] c \in Digits -> 48 + DigitVal(c)
      [] c = ":" -> 58
      [] c = "A" -> 65 [] c = "B" -> 66 [] c = "J" -> 74 [] c = "L" -> 76
      [] c = "M" -> 77 [] c = "P" -> 80 [] c = "Z" -> 90
      [] c = "[" -> 91 [] c = "]" -> 93 [] c = "_" -> 95
      [] c = "a" -> 97 [] c = "b" -> 98 [] c = "c" -> 99 [] c = "e" -> 101
      [] c = "g" -> 103 [] c = "i" -> 105 [] c = "l" -> 108 [] c = "n" -> 110
      [] c = "o" -> 111 [] c = "r" -> 114 [] c = "s" -> 115 [] c = "t" -> 116
      [] c = "u" -> 117 [] c = "x" -> 120

\* str.lower() on one character
Lower(c) ==
    CASE c = "A" -> "a" [] c = "B" -> "b" [] c = "C" -> "c" [] c = "D" -> "d"
      [] c = "E" -> "e" [] c = "F" -> "f" [] c = "G" -> "g" [] c = "H" -> "h"
      [] c = "I" -> "i" [] c = "J" -> "j" [] c = "K" -> "k" [] c = "L" -> "l"
      [] c = "M" -> "m" [] c = "N" -> "n" [] c = "O" -> "o" [] c = "P" -> "p"
      [] c = "Q" -> "q" [] c = "R" -> "r" [] c = "S" -> "s" [] c = "T" -> "t"
      [] c = "U" -> "u" [] c = "V" -> "v" [] c = "W" -> "w" [] c = "X" -> "x"
      [] c = "Y" -> "y" [] c = "Z" -> "z"
      [] OTHER -> c

\* s.lower()
LowerStr(s) == [i \in 1..Len(s) |-> Lower(s[i])]

-----------------------------------------------------------------------------
(* String helpers of the Python runtime *)

\* s[i:] (1-based i)
From(s, i) == SubSeq(s, i, Len(s))

\* s.startswith(p)
StartsWith(s, p) == Len(s) >= Len(p) /\ SubSeq(s, 1, Len(p)) = p

\* the least element of a non-empty set of integers
Least(S) == CHOOSE i \in S : \A j \in S : i <= j

\* s.find(c, i - 1) + 1: the index of the first c in s at or after i, or 0
FindFrom(s, c, i) ==
    LET hits == {k \in i..Len(s) : s[k] = c}
    IN  IF hits = {} THEN 0 ELSE Least(hits)

\* s.split('\n'): one more piece than there are separators
RECURSIVE Split(_)
Split(s) ==
    LET i == FindFrom(s, LF, 1)
    IN  IF i = 0 THEN <<s>>
        ELSE <<SubSeq(s, 1, i - 1)>> \o Split(From(s, i + 1))

\* '\n'.join(pieces)
RECURSIVE Join(_)
Join(pieces) ==
    IF pieces = <<>> THEN <<>>
    ELSE IF Len(pieces) = 1 THEN pieces[1]
    ELSE pieces[1] \o <<LF>> \o Join(Tail(pieces))

\* s.replace('\r\n', '\n'): left to right, one occurrence after the other
RECURSIVE ReplaceCRLF(_)
ReplaceCRLF(s) ==
    LET hits == {k \in 1..(Len(s) - 1) : s[k] = CR /\ s[k + 1] = LF}
    IN  IF hits = {} THEN s
        ELSE LET i == Least(hits)
             IN  SubSeq(s, 1, i - 1) \o <<LF>> \o ReplaceCRLF(From(s, i + 2))

\* s.replace('\r', '\n')
ReplaceCR(s) == [i \in 1..Len(s) |-> IF s[i] = CR THEN LF ELSE s[i]]

\* int(s) of a decimal digit string
RECURSIVE IntOf(_)
IntOf(s) ==
    IF s = <<>> THEN 0
    ELSE 10 * IntOf(SubSeq(s, 1, Len(s) - 1)) + DigitVal(s[Len(s)])

\* str(n) of a natural number
RECURSIVE StrOf(_)
StrOf(n) ==
    IF n < 10 THEN <<DigitChar(n)>>
    ELSE StrOf(n \div 10) \o <<DigitChar(n % 10)>>

\* s.zfill(2): pads on the left with '0' up to width 2, never truncates
ZFill2(s) == IF Len(s) >= 2 THEN s ELSE IF Len(s) = 1 THEN <<"0">> \o s ELSE <<"0", "0">>

\* BytesLess as a collation that ignores case would order the keys
BytesLess_IgnoringCase(a, b) ==
    LET n     == IF Len(a) < Len(b) THEN Len(a) ELSE Len(b)
        diffs == {i \in 1..n : Lower(a[i]) # Lower(b[i])}
    IN  IF diffs = {} THEN Len(a) < Len(b)
        ELSE Ord(Lower(a[Least(diffs)])) < Ord(Lower(b[Least(diffs)]))

\* a < b as byte strings (the order sorted() uses on the bytes keys): the
\* first differing byte decides, and a proper prefix is the smaller
BytesLess(a, b) ==
    LET n     == IF Len(a) < Len(b) THEN Len(a) ELSE Len(b)
        diffs == {i \in 1..n : a[i] # b[i]}
    IN  IF diffs = {} THEN Len(a) < Len(b)
        ELSE Ord(a[Least(diffs)]) < Ord(b[Least(diffs)])

-----------------------------------------------------------------------------
(* sort_chat_log: the timestamp grammar (lines 243 and 267-269) *)

DigitAt(l, i) == i <= Len(l) /\ l[i] \in Digits
CharAt(l, i, c) == i <= Len(l) /\ l[i] = c

\* One left-to-right scan of
\*   ^\[\d{4}/\d{2}/\d{2} \d{1,2}:\d{1,2}(:\d{2})?( [AP]M)?\]
\* A greedy \d{1,2} and the two optional groups never need backtracking to a
\* shorter alternative that could still succeed: the character that follows
\* each of them in the grammar (':', ' ' or ']') is no digit, and what a
\* skipped group would leave next (':' or ' ') cannot start what follows.
\* The scan goes group by group; each stage is given where the groups before
\* it ended.  second and ampm are <<>> where Python's group is None.

\* the prefix ^\[\d{4}/\d{2}/\d{2} \d
ScanDate(l) ==
    /\ CharAt(l, 1, "[")
    /\ \A i \in 2..5 : DigitAt(l, i)
    /\ CharAt(l, 6, "/")
    /\ DigitAt(l, 7) /\ DigitAt(l, 8)
    /\ CharAt(l, 9, "/")
    /\ DigitAt(l, 10) /\ DigitAt(l, 11)
    /\ CharAt(l, 12, " ")
    /\ DigitAt(l, 13)

\* \] after the last group, and the match object
ScanClose(l, hEnd, mEnd, sEnd, aEnd) ==
    IF ~CharAt(l, aEnd + 1, "]") THEN [matched |-> FALSE]
    ELSE [matched |-> TRUE,
          year    |-> SubSeq(l, 2, 5),
          month   |-> SubSeq(l, 7, 8),
          day     |-> SubSeq(l, 10, 11),
          hour    |-> SubSeq(l, 13, hEnd),
          minute  |-> SubSeq(l, hEnd + 2, mEnd),
          second  |-> SubSeq(l, mEnd + 2, sEnd),
          ampm    |-> SubSeq(l, sEnd + 1, aEnd),
          end     |-> aEnd + 1]

\* ( [AP]M)?
ScanMeridiem(l, hEnd, mEnd, sEnd) ==
    ScanClose(l, hEnd, mEnd, sEnd,
              IF /\ CharAt(l, sEnd + 1, " ")
                 /\ (CharAt(l, sEnd + 2, "A") \/ CharAt(l, sEnd + 2, "P"))
                 /\ CharAt(l, sEnd + 3, "M")
              THEN sEnd + 3 ELSE sEnd)

\* (:\d{2})?
ScanSecond(l, hEnd, mEnd) ==
    ScanMeridiem(l, hEnd, mEnd,
                 IF CharAt(l, mEnd + 1, ":") /\ DigitAt(l, mEnd + 2) /\ DigitAt(l, mEnd + 3)
                 THEN mEnd + 3 ELSE mEnd)

\* :\d{1,2}
ScanMinute(l, hEnd) ==
    IF ~(CharAt(l, hEnd + 1, ":") /\ DigitAt(l, hEnd + 2)) THEN [matched |-> FALSE]
    ELSE ScanSecond(l, hEnd, IF DigitAt(l, hEnd + 3) THEN hEnd + 3 ELSE hEnd + 2)

ScanTimestamp(l) ==
    IF ~ScanDate(l) THEN [matched |-> FALSE]
    ELSE ScanMinute(l, IF DigitAt(l, 14) THEN 14 ELSE 13)

\* timestamp_pattern.match(line) is not None
timestamp_pattern(line) == ScanTimestamp(line).matched

\* timestamp_parse.match(first_line): the match with its groups
timestamp_parse(first_line) == ScanTimestamp(first_line)

-----------------------------------------------------------------------------
(* sort_chat_log: step 2, joining multi-line entries (lines 245-263) *)

\* SegmentStep starting an entry at every non-empty line
SegmentStep_EachLineAnEntry(st, line) ==
    IF line # <<>>
    THEN [entries |-> IF st.current_entry # <<>>
                      THEN Append(st.entries, Join(st.current_entry))
                      ELSE st.entries,
          current_entry |-> <<line>>]
    ELSE st

\* One iteration of the loop of lines 248-259 on the state of the locals
SegmentStep(st, line) ==
    IF timestamp_pattern(line)
    THEN [entries |-> IF st.current_entry # <<>>
                      THEN Append(st.entries, Join(st.current_entry))
                      ELSE st.entries,
          current_entry |-> <<line>>]
    ELSE IF line # <<>>
    THEN [entries |-> st.entries,
          current_entry |-> Append(st.current_entry, line)]
    ELSE st

\* The loop over lines: entries and current_entry once the lines from index
\* i on have been consumed.
RECURSIVE SegmentLoop(_, _, _)
SegmentLoop(lines, i, st) ==
    IF i > Len(lines) THEN st
    ELSE SegmentLoop(lines, i + 1, SegmentStep(st, lines[i]))

\* lines 262-263: the flush of the last entry
Flush(st) ==
    IF st.current_entry # <<>>
    THEN Append(st.entries, Join(st.current_entry))
    ELSE st.entries

\* entries after the loop and the flush
Segment(lines) ==
    Flush(SegmentLoop(lines, 1, [entries |-> <<>>, current_entry |-> <<>>]))

-----------------------------------------------------------------------------
(* sort_chat_log: step 3, validating and normalising timestamps (271-317) *)

\* ConvertHour with the test 'hour != 12' of line 297 left out: 12 PM becomes 24
ConvertHour_NoonTo24(hour, ampm) ==
    IF ampm = <<"A", "M">>
    THEN (IF hour = 12 THEN 0 ELSE hour)
    ELSE IF ampm = <<"P", "M">>
    THEN hour + 12
    ELSE hour

\* lines 291-299 on the hour as an int and the stripped meridiem
ConvertHour(hour, ampm) ==
    IF ampm = <<"A", "M">>
    THEN (IF hour = 12 THEN 0 ELSE hour)
    ELSE IF ampm = <<"P", "M">>
    THEN (IF hour # 12 THEN hour + 12 ELSE hour)
    ELSE hour

\* ampm.strip(): the group is ' AM' or ' PM', or None (here <<>>)
Strip(ampm) == IF ampm # <<>> /\ ampm[1] = " " THEN Tail(ampm) ELSE ampm

\* lines 287-303: hour_str
hour_str(m) == ZFill2(StrOf(ConvertHour(IntOf(m.hour), Strip(m.ampm))))

\* lines 288, 303: minute_str
minute_str(m) == ZFill2(StrOf(IntOf(m.minute)))

\* lines 306-309: the rebuilt bracketed timestamp
normalized_ts(m) ==
    <<"[">> \o m.year \o <<"/">> \o m.month \o <<"/">> \o m.day \o <<" ">>
        \o hour_str(m) \o <<":">> \o minute_str(m)
        \o (IF m.second # <<>> THEN <<":">> \o m.second ELSE <<>>)
        \o <<"]">>

\* NormalizeMatched without the raise of lines 278-283: a first line that
\* does not match is kept as it is
NormalizeMatched_KeepsMalformed(lines_in_entry, match) ==
    IF ~match.matched
    THEN [raises |-> FALSE, entry |-> Join(lines_in_entry)]
    ELSE [raises |-> FALSE,
          entry  |-> Join(<<normalized_ts(match) \o From(lines_in_entry[1], match.end + 1)>>
                          \o Tail(lines_in_entry))]

\* lines 278-314 for a first line that starts with '[', given its match
NormalizeMatched(lines_in_entry, match) ==
    IF ~match.matched
    THEN [raises |-> TRUE, entry |-> <<>>]
    ELSE [raises |-> FALSE,
          entry  |-> Join(<<normalized_ts(match) \o From(lines_in_entry[1], match.end + 1)>>
                          \o Tail(lines_in_entry))]

\* lines 273-317 on the split entry
NormalizeLines(entry, lines_in_entry) ==
    IF StartsWith(lines_in_entry[1], <<"[">>)
    THEN NormalizeMatched(lines_in_entry, timestamp_parse(lines_in_entry[1]))
    ELSE [raises |-> FALSE, entry |-> entry]

\* NormalizeEntry validating every line of the entry, not only its first
NormalizeEntry_ChecksEveryLine(entry) ==
    IF \E k \in DOMAIN Split(entry) :
          /\ StartsWith(Split(entry)[k], <<"[">>)
          /\ ~timestamp_parse(Split(entry)[k]).matched
    THEN [raises |-> TRUE, entry |-> <<>>]
    ELSE NormalizeLines(entry, Split(entry))

\* One iteration of the loop of lines 272-317: raises is TRUE where the code
\* raises ValueError, else entry is what is appended to normalized_entries.
NormalizeEntry(entry) == NormalizeLines(entry, Split(entry))

\* whether the loop raises on some entry
NormalizeRaises(entries) ==
    \E i \in 1..Len(entries) : NormalizeEntry(entries[i]).raises

\* normalized_entries when no entry raises
NormalizeAll(entries) ==
    [i \in 1..Len(entries) |-> NormalizeEntry(entries[i]).entry]

-----------------------------------------------------------------------------
(* sort_chat_log: steps 4-6, sort, deduplicate, assemble (319-343) *)

\* sorted() left out: the entries stay in input order
Sorted_InputOrder(s) == s

\* e inserted into the sorted list s, after the elements that are not greater
RECURSIVE Insert(_, _)
Insert(s, e) ==
    IF s = <<>> THEN <<e>>
    ELSE IF BytesLess(e, s[1]) THEN <<e>> \o s
    ELSE <<s[1]>> \o Insert(Tail(s), e)

\* sorted(normalized_entries, key=sort_key): ascending by the UTF-8 bytes
RECURSIVE Sorted(_)
Sorted(s) ==
    IF s = <<>> THEN <<>>
    ELSE Insert(Sorted(SubSeq(s, 1, Len(s) - 1)), s[Len(s)])

\* lines 331-336: an entry is kept unless it equals the entry before it
RECURSIVE SelectKept(_, _)
SelectKept(s, i) ==
    IF i > Len(s) THEN <<>>
    ELSE (IF i = 1 \/ s[i] # s[i - 1] THEN <<s[i]>> ELSE <<>>) \o SelectKept(s, i + 1)

Deduplicate(sorted_entries) == SelectKept(sorted_entries, 1)

\* line 340-341
EnsureTrailingNewline(result) ==
    IF result # <<>> /\ result[Len(result)] # LF
    THEN result \o <<LF>>
    ELSE result

\* lines 339-341
Assemble(deduplicated) == EnsureTrailingNewline(Join(deduplicated))

\* line 231
NormalizeLineEndings(text) == ReplaceCR(ReplaceCRLF(text))

\* the locals of sort_chat_log for an input that passes line 233
Entries(text) == Segment(Split(NormalizeLineEndings(text)))
NormalizedEntries(text) == NormalizeAll(Entries(text))
Deduplicated(text) == Deduplicate(Sorted(NormalizedEntries(text)))

\* lines 271-343 on the segmented entries
SortEntries(entries) ==
    IF NormalizeRaises(entries)
    THEN [raised |-> TRUE, result |-> <<>>]
    ELSE [raised |-> FALSE,
          result |-> Assemble(Deduplicate(Sorted(NormalizeAll(entries))))]

\* lines 233-343 on the text with its line endings normalised
SortNormalized(c) ==
    IF c = <<>> THEN [raised |-> FALSE, result |-> <<LF>>]
    ELSE SortEntries(Segment(Split(c)))

\* sort_chat_log(content, file_path): raised is TRUE where it raises
\* ValueError, else result is the returned string.
sort_chat_log(text) == SortNormalized(NormalizeLineEndings(text))

-----------------------------------------------------------------------------
(* The sort_chat_log harness: a text is sorted, and its result sorted again,
   as a second run of the tool over its own output does *)

MaxLines == 3

Date1 == <<"2", "0", "2", "4", "/", "0", "1", "/", "0", "1">>
Date0 == <<"2", "0", "2", "3", "/", "1", "2", "/", "3", "1">>

\* a header line as the viewers write it; s and ap are <<>> when absent
Header(date, h, m, s, ap, rest) ==
    <<"[">> \o date \o <<" ">> \o h \o <<":">> \o m
        \o (IF s = <<>> THEN <<>> ELSE <<":">> \o s)
        \o (IF ap = <<>> THEN <<>> ELSE <<" ">> \o ap)
        \o <<"]">> \o rest

\* every hour the grammar accepts: one or two digits
HourInputs == {<<a>> : a \in Digits} \cup {<<a, b>> : a \in Digits, b \in Digits}
MinuteInputs == {<<"5">>, <<"0", "0">>}
SecondInputs == {<<>>, <<"3", "0">>}
MeridiemInputs == {<<>>, <<"A", "M">>, <<"P", "M">>}

\* one-line logs covering every accepted hour/meridiem combination
HeaderInputs ==
    {Header(Date1, h, m, s, ap, <<" ", "a">>) \o <<LF>> :
        h \in HourInputs, m \in MinuteInputs, s \in SecondInputs, ap \in MeridiemInputs}

\* the lines multi-line logs are made of
LinePool ==
    { Header(Date1, <<"1", "2">>, <<"0", "0">>, <<"0", "0">>, <<>>, <<" ", "a">>),
      Header(Date1, <<"1", "2">>, <<"0", "0">>, <<>>, <<>>, <<" ", "a">>),
      Header(Date0, <<"1">>, <<"0", "5">>, <<>>, <<"P", "M">>, <<" ", "b">>),
      Header(Date1, <<"1", "2">>, <<"0", "0">>, <<"3", "0">>, <<>>, <<" ", "B">>),
      Header(Date1, <<"1", "2">>, <<"0", "0">>, <<"0", "0">>, <<>>, <<" ", "B">>),
      <<>>,
      <<"a">>,
      <<"A">>,
      <<"[", "2", "0", "2", "4", "-", "0", "1", "-", "0", "1", " ",
        "1", "2", ":", "0", "0", ":", "0", "0", "]", " ", "x">> }

\* the terminator after line i: LF throughout, or CRLF and CR in turn
Terminator(style, i) ==
    IF style = "lf" THEN <<LF>>
    ELSE IF i % 2 = 1 THEN <<CR, LF>> ELSE <<CR>>

RECURSIVE TextFrom(_, _, _, _)
TextFrom(ls, i, style, final) ==
    IF i > Len(ls) THEN <<>>
    ELSE ls[i] \o (IF i < Len(ls) \/ final THEN Terminator(style, i) ELSE <<>>)
               \o TextFrom(ls, i + 1, style, final)

\* a file of the given lines; the last line is terminated iff final
Text(ls, style, final) == TextFrom(ls, 1, style, final)

LineLists == UNION {[1..n -> LinePool] : n \in 0..MaxLines}

SortInputs ==
    HeaderInputs \cup
    {Text(ls, style, final) : ls \in LineLists, style \in {"lf", "mixed"}, final \in BOOLEAN}

NoCall == [raised |-> FALSE, result |-> <<>>]

-----------------------------------------------------------------------------
(* merge_and_sync_file (lines 364-480) over a small filesystem *)

NumDirs == 2
MaxCalls == 2

Dirs == 1..NumDirs
NoFile == <<"absent">>

\* lines 39-42
EXCLUDED_DIRECTORIES ==
    { <<"l", "o", "g", "s", "/">>,
      <<"u", "s", "e", "r", "_", "s", "e", "t", "t", "i", "n", "g", "s", "/">> }

\* lines 378-379
InExcludedDirectory(path) ==
    \E excluded_dir \in EXCLUDED_DIRECTORIES :
        StartsWith(LowerStr(path), LowerStr(excluded_dir))

\* os.linesep of the platform the tool runs on (POSIX)
os_linesep == <<LF>>

\* read_file_content (346-361): Path.read_text decodes (the alphabet is
\* ASCII, so UTF-8 never fails) and, opening in text mode with universal
\* newlines, hands '\r\n' and '\r' over as '\n'.
read_file_content(bytes) == ReplaceCR(ReplaceCRLF(bytes))

\* file_path.write_text(merged, encoding='utf-8') (475): text mode writes
\* each '\n' as os.linesep
RECURSIVE write_text(_)
write_text(text) ==
    LET i == FindFrom(text, LF, 1)
    IN  IF i = 0 THEN text
        ELSE SubSeq(text, 1, i - 1) \o os_linesep \o write_text(From(text, i + 1))

\* file_path.stat().st_size
st_size(bytes) == Len(bytes)

Readable(m) == m \in {"r", "rw"}
Writable(m) == m \in {"w", "rw"}

\* lines 386-406: the size-equality skip
SizeSkip(files, force) ==
    /\ ~force
    /\ \A d \in Dirs : files[d] # NoFile
    /\ Cardinality({st_size(files[d]) : d \in {e \in Dirs : files[e] # NoFile}}) = 1

\* lines 409-428: the readable copies, in directory order, concatenated
RECURSIVE CombinedFrom(_, _, _)
CombinedFrom(modes, files, d) ==
    IF d > NumDirs THEN <<>>
    ELSE (IF Readable(modes[d]) /\ files[d] # NoFile
          THEN read_file_content(files[d]) ELSE <<>>)
         \o CombinedFrom(modes, files, d + 1)

\* Combined with the copy of every directory read, its mode notwithstanding
Combined_ReadsEveryCopy(modes, files) ==
    CombinedFrom([d \in Dirs |-> "rw"], files, 1)

Combined(modes, files) == CombinedFrom(modes, files, 1)

readable_found(modes, files) ==
    \E d \in Dirs : Readable(modes[d]) /\ files[d] # NoFile

\* lines 455-469
needs_write(files, d, merged) ==
    IF files[d] # NoFile THEN read_file_content(files[d]) # merged ELSE TRUE

\* WriteStep with the parent directories of lines 445-452 created under
\* DRY_RUN too
WriteStep_MkdirInDryRun(modes, files, parents, dry, merged) ==
    [kind   |-> "done",
     fs     |-> [d \in Dirs |->
                   IF Writable(modes[d]) /\ needs_write(files, d, merged) /\ ~dry
                   THEN write_text(merged) ELSE files[d]],
     parent |-> [d \in Dirs |-> IF Writable(modes[d]) THEN TRUE ELSE parents[d]],
     writes |-> {d \in Dirs : Writable(modes[d]) /\ needs_write(files, d, merged)}]

\* lines 438-480: the write step, given what sort_chat_log returned
WriteStep(modes, files, parents, dry, merged) ==
    [kind   |-> "done",
     fs     |-> [d \in Dirs |->
                   IF Writable(modes[d]) /\ needs_write(files, d, merged) /\ ~dry
                   THEN write_text(merged) ELSE files[d]],
     parent |-> [d \in Dirs |->
                   IF Writable(modes[d]) /\ ~dry THEN TRUE ELSE parents[d]],
     writes |-> {d \in Dirs : Writable(modes[d]) /\ needs_write(files, d, merged)}]

\* a call that returns or exits before the write step
Untouched(kind, files, parents) ==
    [kind |-> kind, fs |-> files, parent |-> parents, writes |-> {}]

\* AfterSort with the parent directories of lines 445-452 created before the
\* outcome of sort_chat_log is looked at
AfterSort_CreatesParentsFirst(modes, files, parents, dry, sorted) ==
    IF sorted.raised
    THEN [kind   |-> "exit",
          fs     |-> files,
          parent |-> [d \in Dirs |->
                        IF Writable(modes[d]) /\ ~dry THEN TRUE ELSE parents[d]],
          writes |-> {}]
    ELSE WriteStep(modes, files, parents, dry, sorted.result)

\* lines 431-480, given the outcome of sort_chat_log(combined, relative_path)
AfterSort(modes, files, parents, dry, sorted) ==
    IF sorted.raised THEN Untouched("exit", files, parents)
    ELSE WriteStep(modes, files, parents, dry, sorted.result)

\* One call of merge_and_sync_file: how it ended, and the files and parent
\* directories it leaves.  kind is "excluded" (381), "size_skip" (406),
\* "not_found" (425), "exit" (sys.exit(1), 436) or "done".  writes are the
\* directories whose copy was written or, under DRY_RUN, reported as
\* "Would add/update".
MergeAndSync(path, modes, files, parents, dry, force) ==
    IF InExcludedDirectory(path) THEN Untouched("excluded", files, parents)
    ELSE IF SizeSkip(files, force) THEN Untouched("size_skip", files, parents)
    ELSE IF ~readable_found(modes, files) THEN Untouched("not_found", files, parents)
    ELSE AfterSort(modes, files, parents, dry, sort_chat_log(Combined(modes, files)))

\* the relative paths the calls are made for
Paths ==
    { <<"J", "o", "/", "c", ".", "t", "x", "t">>,
      <<"L", "o", "g", "s", "/", "c", ".", "t", "x", "t">> }

\* the copies a directory may hold before the first call
FilePool ==
    { <<>>,
      Header(Date1, <<"1", "2">>, <<"0", "0">>, <<"0", "0">>, <<>>, <<" ", "a">>) \o <<LF>>,
      Header(Date1, <<"1", "2">>, <<"0", "1">>, <<"0", "0">>, <<>>, <<" ", "b">>) \o <<LF>>,
      Header(Date1, <<"1", "2">>, <<"0", "0">>, <<"0", "0">>, <<>>, <<" ", "a">>),
      Header(Date1, <<"1", "2">>, <<"0", "0">>, <<"0", "0">>, <<>>, <<" ", "a">>) \o <<CR, LF>>,
      <<"[", "2", "0", "2", "4", "-", "0", "1", "-", "0", "1", " ",
        "1", "2", ":", "0", "0", ":", "0", "0", "]", " ", "x", "x", "x", LF>> }

NoMerge == [n |-> 0, kind |-> "none", path |-> <<>>, dry |-> FALSE, force |-> FALSE,
            before |-> <<>>, parent_before |-> <<>>, writes |-> {},
            prev_kind |-> "none", prev_writes |-> {}]

-----------------------------------------------------------------------------
(* should_exclude_file (lines 137-157) and discover_files (160-213) *)

\* sub in s
Contains(s, sub) ==
    \E i \in 1..(Len(s) - Len(sub) + 1) : SubSeq(s, i, i + Len(sub) - 1) = sub

\* s.endswith(suffix)
EndsWith(s, suffix) ==
    /\ Len(suffix) <= Len(s)
    /\ SubSeq(s, Len(s) - Len(suffix) + 1, Len(s)) = suffix

\* lines 28-36.  No comma separates "render_mute_settings.txt" from
\* "search_history.txt" (lines 32-33): Python joins two adjacent string
\* literals into one, so the list has six elements.
EXCLUDED_FILES ==
    << <<"a", "v", "a", "t", "a", "r", "_", "i", "c", "o", "n", "s", "_",
         "c", "a", "c", "h", "e", ".", "t", "x", "t">>,
       <<"c", "e", "f", "_", "l", "o", "g", ".", "t", "x", "t">>,
       <<"p", "l", "u", "g", "i", "n", "_", "c", "o", "o", "k", "i", "e",
         "s", ".", "t", "x", "t">>,
       <<"r", "e", "n", "d", "e", "r", "_", "m", "u", "t", "e", "_", "s",
         "e", "t", "t", "i", "n", "g", "s", ".", "t", "x", "t">>
         \o <<"s", "e", "a", "r", "c", "h", "_", "h", "i", "s", "t", "o",
              "r", "y", ".", "t", "x", "t">>,
       <<"t", "e", "l", "e", "p", "o", "r", "t", "_", "h", "i", "s", "t",
         "o", "r", "y", ".", "t", "x", "t">>,
       <<"t", "y", "p", "e", "d", "_", "l", "o", "c", "a", "t", "i", "o",
         "n", "s", ".", "t", "x", "t">> >>

conflicted_copy == <<"c", "o", "n", "f", "l", "i", "c", "t", "e", "d", " ",
                     "c", "o", "p", "y">>

\* lines 147-157
should_exclude_file(path) ==
    \/ Contains(LowerStr(path), conflicted_copy)
    \/ \E i \in DOMAIN EXCLUDED_FILES :
          EndsWith(LowerStr(path), <<"/">> \o LowerStr(EXCLUDED_FILES[i]))

\* lines 202-204: the user's filters, when given
PassesFilters(path, user_filters) ==
    user_filters # <<>> =>
        \E i \in DOMAIN user_filters : Contains(LowerStr(path), LowerStr(user_filters[i]))

\* lines 184-207, for one .txt file found under a readable directory
Discovered(path, user_filters) ==
    /\ ~InExcludedDirectory(path)
    /\ ~should_exclude_file(path)
    /\ PassesFilters(path, user_filters)

\* discover_files: the relative paths it returns for the .txt files found
discover_files(txt_files, user_filters) ==
    {path \in txt_files : Discovered(path, user_filters)}

\* the .txt files a viewer's directory may hold, relative to its root
TxtPool ==
    { <<"J", "o", "/", "a", "v", "a", "t", "a", "r", "_", "i", "c", "o",
        "n", "s", "_", "c", "a", "c", "h", "e", ".", "t", "x", "t">>,
      <<"J", "o", "/", "c", "e", "f", "_", "l", "o", "g", ".", "t", "x", "t">>,
      <<"J", "o", "/", "p", "l", "u", "g", "i", "n", "_", "c", "o", "o",
        "k", "i", "e", "s", ".", "t", "x", "t">>,
      <<"J", "o", "/", "r", "e", "n", "d", "e", "r", "_", "m", "u", "t",
        "e", "_", "s", "e", "t", "t", "i", "n", "g", "s", ".", "t", "x", "t">>,
      <<"J", "o", "/", "s", "e", "a", "r", "c", "h", "_", "h", "i", "s",
        "t", "o", "r", "y", ".", "t", "x", "t">>,
      <<"J", "o", "/", "t", "e", "l", "e", "p", "o", "r", "t", "_", "h",
        "i", "s", "t", "o", "r", "y", ".", "t", "x", "t">>,
      <<"J", "o", "/", "t", "y", "p", "e", "d", "_", "l", "o", "c", "a",
        "t", "i", "o", "n", "s", ".", "t", "x", "t">>,
      <<"J", "o", "/", "C", "E", "F", "_", "L", "o", "g", ".", "T", "X", "T">>,
      <<"J", "o", "/", "c", " ", "(", "C", "o", "n", "f", "l", "i", "c",
        "t", "e", "d", " ", "C", "o", "p", "y", ")", ".", "t", "x", "t">>,
      <<"J", "o", "/", "c", ".", "t", "x", "t">>,
      <<"L", "o", "g", "s", "/", "c", ".", "t", "x", "t">>,
      <<"c", "e", "f", "_", "l", "o", "g", ".", "t", "x", "t">> }

\* the FILTER arguments of a run: none, or one
FilterInputs == {<<>>, <<<<"j", "O">>>>}

-----------------------------------------------------------------------------
(* Specifications *)

SyncIdle ==
    /\ relative_path = <<>> /\ mode = <<>> /\ fs = <<>> /\ parent = <<>>
    /\ DRY_RUN = FALSE /\ FORCE = FALSE /\ status = "running" /\ last = NoMerge

SortIdle == content = <<>> /\ calls = 0 /\ out = NoCall /\ prev = NoCall

DiscoverIdle == found = {} /\ filters = <<>> /\ all_files = {} /\ scanned = FALSE

InitSort ==
    /\ content \in SortInputs
    /\ calls = 0 /\ out = NoCall /\ prev = NoCall
    /\ SyncIdle
    /\ DiscoverIdle

\* the first call: sort_chat_log(content, file_path)
SortChatLog ==
    /\ calls = 0
    /\ calls' = 1
    /\ prev' = out
    /\ out' = sort_chat_log(content)
    /\ UNCHANGED <<content, syncVars, discoverVars>>

\* the second call, on what the first returned
SortAgain ==
    /\ calls = 1
    /\ ~out.raised
    /\ calls' = 2
    /\ prev' = out
    /\ out' = sort_chat_log(out.result)
    /\ UNCHANGED <<content, syncVars, discoverVars>>

NextSort == SortChatLog \/ SortAgain

SpecSort == InitSort /\ [][NextSort]_vars

\* The directories as main hands them over (542-547), each holding a copy
\* of the file or none; a copy's parent directory exists.  The flags are
\* the module's defaults (45-47) until main sets them.
Init ==
    /\ SortIdle
    /\ DiscoverIdle
    /\ relative_path \in Paths
    /\ mode \in [Dirs -> {"r", "w", "rw"}]
    /\ fs \in [Dirs -> FilePool \cup {NoFile}]
    /\ parent \in [Dirs -> BOOLEAN]
    /\ \A d \in Dirs : fs[d] # NoFile => parent[d]
    /\ DRY_RUN = FALSE /\ FORCE = FALSE
    /\ status = "running"
    /\ last = NoMerge

\* main, lines 529-533: the flags of this run
ParseArgs ==
    /\ status = "running"
    /\ last.n = 0
    /\ \E dry \in BOOLEAN, force \in BOOLEAN :
          /\ <<dry, force>> # <<DRY_RUN, FORCE>>
          /\ DRY_RUN' = dry
          /\ FORCE' = force
    /\ UNCHANGED <<sortVars, discoverVars, relative_path, mode, fs, parent, status, last>>

\* the state a call leaves, given its outcome r
Returned(r) ==
    /\ fs' = r.fs
    /\ parent' = r.parent
    /\ status' = IF r.kind = "exit" THEN "exit1" ELSE "running"
    /\ last' = [n |-> last.n + 1, kind |-> r.kind, path |-> relative_path,
                dry |-> DRY_RUN, force |-> FORCE,
                before |-> fs, parent_before |-> parent, writes |-> r.writes,
                prev_kind |-> last.kind, prev_writes |-> last.writes]

\* main, line 590: merge_and_sync_file(relative_path, existing_dirs)
MergeAndSyncFile ==
    /\ status = "running"
    /\ last.n < MaxCalls
    /\ Returned(MergeAndSync(relative_path, mode, fs, parent, DRY_RUN, FORCE))
    /\ UNCHANGED <<sortVars, discoverVars, relative_path, mode, DRY_RUN, FORCE>>

Next == ParseArgs \/ MergeAndSyncFile

Spec == Init /\ [][Next]_vars

\* The .txt files rglob finds under the readable directories (184) and the
\* FILTER arguments main passes on (566).
InitDiscover ==
    /\ SortIdle
    /\ SyncIdle
    /\ found \in SUBSET TxtPool
    /\ filters \in FilterInputs
    /\ all_files = {}
    /\ scanned = FALSE

\* main, line 566: all_files = discover_files(existing_dirs, args.filters)
DiscoverFiles ==
    /\ ~scanned
    /\ all_files' = discover_files(found, filters)
    /\ scanned' = TRUE
    /\ UNCHANGED <<sortVars, syncVars, found, filters>>

NextDiscover == DiscoverFiles

SpecDiscover == InitDiscover /\ [][NextDiscover]_vars

-----------------------------------------------------------------------------
(* Vocabulary of the properties *)

\* the system files the exclusion list is meant to name
IntendedSystemFiles ==
    { LowerStr(EXCLUDED_FILES[i]) : i \in {1, 2, 3, 5, 6} }
    \cup { SubSeq(EXCLUDED_FILES[4], 1, 24), SubSeq(EXCLUDED_FILES[4], 25, 42) }

\* a path ending in '/<name>' for a system file, or holding 'conflicted copy'
MeantExcluded(path) ==
    \/ Contains(LowerStr(path), conflicted_copy)
    \/ \E name \in IntendedSystemFiles : EndsWith(LowerStr(path), <<"/">> \o name)

Range(f) == {f[i] : i \in DOMAIN f}

FirstLine(entry) == Split(entry)[1]

\* a line that starts with '[' and is no timestamp header
MalformedHeaderLine(line) ==
    StartsWith(line, <<"[">>) /\ ~timestamp_parse(line).matched

\* the lines of the input once its line endings are normalised
InputLines == Split(NormalizeLineEndings(content))

\* the lines of the returned string
OutputLines == Split(out.result)

\* the first call has returned a string
Returned1 == calls = 1 /\ ~out.raised

\* the indices of the input's entries that begin with a timestamp header
HeaderEntries ==
    {i \in DOMAIN Entries(content) : timestamp_pattern(FirstLine(Entries(content)[i]))}

\* the match of the header of input entry i
InputMatch(i) == timestamp_parse(FirstLine(Entries(content)[i]))

\* the header line input entry i has after normalisation
NormalizedHeader(i) == FirstLine(NormalizedEntries(content)[i])

\* the digits between the space after the date and the first ':' of a header
HourField(header) == SubSeq(header, 13, FindFrom(header, ":", 13) - 1)

\* the bracketed timestamp of a header: up to its first ']'
Bracket(header) == SubSeq(header, 1, FindFrom(header, "]", 1))

\* the 24-hour value of hour h under the meridiem group ap (<<>>, ' AM', ' PM')
HourOnClock(h, ap) ==
    CASE ap = <<" ", "A", "M">> /\ h = 12 -> 0
      [] ap = <<" ", "P", "M">> /\ h = 12 -> 12
      [] ap = <<" ", "P", "M">> /\ h # 12 -> h + 12
      [] OTHER -> h

\* the point in time a header denotes: date, then hour, minute, second
\* (a header without seconds denotes second 0)
TimeOf(i) ==
    <<IntOf(InputMatch(i).year), IntOf(InputMatch(i).month), IntOf(InputMatch(i).day),
      HourOnClock(IntOf(InputMatch(i).hour), InputMatch(i).ampm),
      IntOf(InputMatch(i).minute),
      IF InputMatch(i).second = <<>> THEN 0 ELSE IntOf(InputMatch(i).second)>>

\* lexicographic order on equally long tuples of numbers
TupleLess(a, b) ==
    \E k \in DOMAIN a : a[k] < b[k] /\ \A j \in 1..(k - 1) : a[j] = b[j]

\* where a line first occurs in the returned string
OutputPos(line) == Least({k \in DOMAIN OutputLines : OutputLines[k] = line})

-----------------------------------------------------------------------------
(* Properties of sort_chat_log, under SpecSort *)

\* C1: sorting is idempotent: whenever sort_chat_log returns for a text,
\* applying it to the returned string returns that same string.
C1_Idempotent ==
    calls = 2 => (~out.raised /\ out.result = prev.result)

\* C3: whenever sort_chat_log returns, the returned string is not empty and
\* ends with exactly one '\n'.
C3_OneTrailingNewline ==
    Returned1 =>
        /\ Len(out.result) >= 1
        /\ out.result[Len(out.result)] = LF
        /\ Len(out.result) >= 2 => out.result[Len(out.result) - 1] # LF

\* C4: sort_chat_log raises exactly when some segmented entry's first line
\* starts with '[' and does not match the capturing grammar; every other
\* input returns.
C4_RaisesExactlyOnMalformedEntry ==
    calls = 1 =>
        (out.raised <=>
            \E i \in DOMAIN Entries(content) :
                MalformedHeaderLine(FirstLine(Entries(content)[i])))

\* a text of several lines and mixed line endings on which the call raised
C4_Witness ==
    /\ calls = 1 /\ out.raised
    /\ Len(InputLines) >= 2
    /\ \E i \in DOMAIN content : content[i] = CR

\* C5 as stated: a line that starts with '[' and does not conform to the
\* grammar makes sort_chat_log raise wherever it occurs in the text.
C5_MalformedLineAlwaysRaises ==
    calls = 1 =>
        ((\E i \in DOMAIN InputLines : MalformedHeaderLine(InputLines[i])) => out.raised)

\* C5 amended: sort_chat_log raises exactly when the first non-empty line of
\* the text starts with '[' and does not conform to the grammar; such a line
\* after an earlier non-empty line is kept verbatim as a line of the output.
C5_MalformedLineRaisesOnlyFirst ==
    calls = 1 =>
        /\ out.raised <=>
              \E i \in DOMAIN InputLines :
                  /\ MalformedHeaderLine(InputLines[i])
                  /\ \A j \in 1..(i - 1) : InputLines[j] = <<>>
        /\ ~out.raised =>
              \A i \in DOMAIN InputLines :
                  MalformedHeaderLine(InputLines[i]) => InputLines[i] \in Range(OutputLines)

\* a malformed '[' line after a valid header, and the call returned
C5_Witness ==
    /\ Returned1
    /\ \E i \in DOMAIN InputLines :
          /\ MalformedHeaderLine(InputLines[i])
          /\ \E j \in 1..(i - 1) : timestamp_pattern(InputLines[j])

\* C7: every header of the output carries an hour between 0 and 23, written
\* with exactly two digits.
C7_HourInRange ==
    Returned1 =>
        \A i \in HeaderEntries :
            /\ NormalizedHeader(i) \in Range(OutputLines)
            /\ Len(HourField(NormalizedHeader(i))) = 2
            /\ IntOf(HourField(NormalizedHeader(i))) \in 0..23

\* C8: when every entry has a header and the headers denote pairwise
\* distinct times, the entries appear in the output in ascending order of
\* time (date, then hour, minute, second).
C8_Chronological ==
    (/\ Returned1
     /\ HeaderEntries = DOMAIN Entries(content)
     /\ \A i, j \in HeaderEntries : i # j => TimeOf(i) # TimeOf(j))
    =>
        \A i, j \in HeaderEntries :
            TupleLess(TimeOf(i), TimeOf(j))
                => OutputPos(NormalizedHeader(i)) < OutputPos(NormalizedHeader(j))

\* C9: the output consists of the distinct normalised entries of the input,
\* each exactly once: duplicates collapse wherever they stood in the input,
\* and entries that differ in any byte all survive.
C9_DistinctEntriesOnce ==
    (Returned1 /\ Entries(content) # <<>>) =>
        LET kept == Deduplicated(content)
        IN  /\ out.result = Join(kept) \o <<LF>>
            /\ Range(kept) = Range(NormalizedEntries(content))
            /\ \A k, l \in DOMAIN kept : k # l => kept[k] # kept[l]

\* the same entry twice with a different entry between the two
C9_Witness ==
    /\ Returned1
    /\ Len(NormalizedEntries(content)) = 3
    /\ NormalizedEntries(content)[1] = NormalizedEntries(content)[3]
    /\ NormalizedEntries(content)[1] # NormalizedEntries(content)[2]
    /\ Len(Deduplicated(content)) = 2

\* what C10 says of one header: m is the match of the input header, header
\* the line the output holds for it, b its bracketed timestamp
ConversionHolds(m, header, b) ==
    /\ IntOf(HourField(header)) = HourOnClock(IntOf(m.hour), m.ampm)
    /\ \A k \in DOMAIN b : b[k] \notin {"A", "P", "M"}
    /\ SubSeq(header, 1, 12)
          = <<"[">> \o m.year \o <<"/">> \o m.month \o <<"/">> \o m.day \o <<" ">>
    /\ Cardinality({k \in DOMAIN b : b[k] = ":"}) = IF m.second = <<>> THEN 1 ELSE 2
    /\ m.second # <<>> => SubSeq(b, Len(b) - 3, Len(b)) = <<":">> \o m.second \o <<"]">>

\* C10: the normalised hour is 0 for 12 AM, 12 for 12 PM, h + 12 for h PM
\* with h # 12 and h otherwise; the bracketed timestamp of the output holds
\* no AM/PM; year, month, day and second are copied verbatim.
C10_TwelveHourConversion ==
    Returned1 =>
        \A i \in HeaderEntries :
            /\ NormalizedHeader(i) \in Range(OutputLines)
            /\ ConversionHolds(InputMatch(i), NormalizedHeader(i),
                               Bracket(NormalizedHeader(i)))

\* an afternoon hour with seconds, and midnight, have been converted
C10_Witness ==
    /\ Returned1
    /\ \E i \in HeaderEntries :
          /\ InputMatch(i).ampm = <<" ", "P", "M">>
          /\ IntOf(InputMatch(i).hour) = 11
          /\ InputMatch(i).second # <<>>
          /\ HourField(NormalizedHeader(i)) = <<"2", "3">>

-----------------------------------------------------------------------------
(* Properties of merge_and_sync_file, under Spec *)

\* the latest call went as far as sort_chat_log
ReachedSort == last.n >= 1 /\ last.kind \in {"exit", "done"}

\* the normalised entries of a copy as read
CopyEntries(bytes) == Range(NormalizedEntries(read_file_content(bytes)))

\* C2: after a call with DRY_RUN off has returned for a file that some
\* readable directory holds, the writable directories hold byte-identical
\* copies, and these contain every entry of every readable copy.  (Stated
\* for the paths the tool does not exclude.)
C2_SyncConverges ==
    (/\ last.n >= 1
     /\ last.kind # "exit"
     /\ ~last.dry
     /\ ~InExcludedDirectory(last.path)
     /\ \E d \in Dirs : Readable(mode[d]) /\ last.before[d] # NoFile)
    =>
        \A w \in Dirs : Writable(mode[w]) =>
            /\ fs[w] # NoFile
            /\ \A v \in Dirs : Writable(mode[v]) => fs[v] = fs[w]
            /\ \A d \in Dirs :
                  (Readable(mode[d]) /\ last.before[d] # NoFile)
                      => CopyEntries(last.before[d]) \subseteq CopyEntries(fs[w])

\* C6: when sort_chat_log raises for the file, the call writes no file and
\* creates no directory, and the process stops before the write step.
C6_NoWriteOnRaise ==
    (ReachedSort /\ sort_chat_log(Combined(mode, last.before)).raised) =>
        /\ fs = last.before
        /\ parent = last.parent_before
        /\ last.writes = {}
        /\ status = "exit1"

\* the merge raised while a writable directory lacked the file and its parent
C6_Witness ==
    /\ last.kind = "exit"
    /\ \E d \in Dirs : Writable(mode[d]) /\ fs[d] = NoFile /\ ~parent[d]
    /\ \E d \in Dirs : Writable(mode[d]) /\ fs[d] # NoFile

\* C11: should_exclude_file returns True for every path that ends in
\* '/<name>' (case-insensitively) for each of the seven system file names,
\* and for every path containing 'conflicted copy'; it returns False for
\* every other path.  Stated over the files a discovery run has looked at.
C11_ExcludesSystemFiles ==
    scanned =>
        \A path \in found : should_exclude_file(path) <=> MeantExcluded(path)

\* what the latest call would have left had it run without DRY_RUN
RealRun ==
    MergeAndSync(last.path, mode, last.before, last.parent_before, FALSE, last.force)

\* C12: under DRY_RUN a call of merge_and_sync_file leaves every copy and
\* every parent directory as it found them, and the writes it reports are
\* exactly the copies a run without DRY_RUN would have changed.
C12_DryRunChangesNothing ==
    (last.n > 0 /\ last.dry) =>
        /\ fs = last.before
        /\ parent = last.parent_before
        /\ last.writes = {d \in Dirs : RealRun.fs[d] # last.before[d]}

\* a dry run that reported a write and a directory it would have created
C12_Witness ==
    /\ last.n > 0 /\ last.dry /\ last.kind = "done"
    /\ \E d \in last.writes : ~parent[d] /\ fs[d] = NoFile
    /\ \E d \in last.writes : fs[d] # NoFile

\* the copies of the latest call with those of the write-only directories
\* taken away
WithoutWriteOnly ==
    [d \in Dirs |-> IF mode[d] = "w" THEN NoFile ELSE last.before[d]]

\* C13: a call of merge_and_sync_file leaves the copy and the parent
\* directory of every 'r' directory as they were, and what it writes is the
\* sorted concatenation of the copies in the 'r' and 'rw' directories alone:
\* the same text as if the 'w' directories had held no copy.
C13_ModesRespected ==
    last.n > 0 =>
        /\ \A d \in Dirs :
              mode[d] = "r" => fs[d] = last.before[d] /\ parent[d] = last.parent_before[d]
        /\ (last.kind = "done" /\ ~last.dry) =>
              \A d \in last.writes :
                  fs[d] = write_text(sort_chat_log(Combined(mode, WithoutWriteOnly)).result)

\* a copy read from an 'r' directory replaced the different, non-empty copy
\* of a 'w' directory
C13_Witness ==
    /\ last.n > 0 /\ last.kind = "done" /\ ~last.dry
    /\ \E d \in Dirs, e \in last.writes :
          /\ mode[d] = "r" /\ mode[e] = "w"
          /\ fs[d] # NoFile
          /\ last.before[e] \notin {NoFile, <<>>}
          /\ fs[e] # last.before[e]

\* x sorts before y as UTF-8 byte strings: at the first position where they
\* part, x has ended or holds the smaller byte
ByteBefore(x, y) ==
    \E k \in 1..Len(y) :
        /\ k <= Len(x) + 1
        /\ SubSeq(x, 1, k - 1) = SubSeq(y, 1, k - 1)
        /\ k <= Len(x) => Ord(x[k]) < Ord(y[k])

\* C14: the entries of the returned text, header and continuation lines
\* together, stand in strictly ascending order of their UTF-8 bytes; so, at
\* one timestamp, an upper-case suffix comes before a lower-case one.
C14_ByteWiseOrder ==
    Returned1 =>
        LET es == Entries(out.result)
        IN  \A k \in 1..(Len(es) - 1) : ByteBefore(es[k], es[k + 1])

\* 'a' was given before 'B' at one timestamp and 'B' is returned first
C14_Witness ==
    /\ Returned1
    /\ content = Text(<<Header(Date1, <<"1", "2">>, <<"0", "0">>, <<"0", "0">>, <<>>, <<" ", "a">>),
                        Header(Date1, <<"1", "2">>, <<"0", "0">>, <<"0", "0">>, <<>>, <<" ", "B">>)>>,
                      "lf", TRUE)
    /\ Entries(out.result)
          = <<Header(Date1, <<"1", "2">>, <<"0", "0">>, <<"0", "0">>, <<>>, <<" ", "B">>),
              Header(Date1, <<"1", "2">>, <<"0", "0">>, <<"0", "0">>, <<>>, <<" ", "a">>)>>

NonEmptyLine(l) == l # <<>>

\* the index of the first header line of the input after line i, or one
\* past the last line
NextHeaderAfter(i) ==
    Least({j \in (i + 1)..(Len(InputLines) + 1) :
              j = Len(InputLines) + 1 \/ timestamp_pattern(InputLines[j])})

\* the non-empty lines between input line i and the next header line
ContinuationOf(i) ==
    SelectSeq(SubSeq(InputLines, i + 1, NextHeaderAfter(i) - 1), NonEmptyLine)

\* C15: for every header line of the input followed by non-empty lines
\* before the next header line, the returned text holds the normalised
\* header line with exactly those lines directly after it, in their order.
C15_ContinuationStaysAttached ==
    Returned1 =>
        \A i \in DOMAIN InputLines :
            (timestamp_pattern(InputLines[i]) /\ ContinuationOf(i) # <<>>) =>
                \E k \in 1..(Len(OutputLines) - Len(ContinuationOf(i))) :
                    SubSeq(OutputLines, k, k + Len(ContinuationOf(i)))
                        = <<NormalizeEntry(InputLines[i]).entry>> \o ContinuationOf(i)

\* the first entry of the input has a continuation line and is returned
\* after an entry that followed it
C15_Witness ==
    /\ Returned1
    /\ Len(InputLines) >= 3
    /\ timestamp_pattern(InputLines[1])
    /\ ContinuationOf(1) # <<>>
    /\ timestamp_pattern(InputLines[3])
    /\ OutputLines[1] = NormalizeEntry(InputLines[3]).entry
    /\ OutputLines[1] # NormalizeEntry(InputLines[1]).entry

\* the directories whose copy the latest call read
SourcesRead == {d \in Dirs : Readable(mode[d]) /\ last.before[d] # NoFile}

\* the entries sort_chat_log returns for one copy sorted on its own
EntriesAlone(bytes) ==
    Range(Entries(sort_chat_log(read_file_content(bytes)).result))

\* the readable copies concatenated in the opposite directory order
RECURSIVE CombinedReversed(_)
CombinedReversed(d) ==
    IF d < 1 THEN <<>>
    ELSE (IF d \in SourcesRead THEN read_file_content(last.before[d]) ELSE <<>>)
         \o CombinedReversed(d - 1)

\* C16: when every copy read is a text sort_chat_log accepts on its own,
\* with or without a final line terminator, the entries of the merged text
\* are exactly the entries of the copies sorted one by one, and the merged
\* text is the same for the copies taken in the opposite order.
C16_ConcatenationKeepsEntries ==
    (/\ last.n >= 1 /\ last.kind = "done" /\ ~last.dry
     /\ \A d \in SourcesRead : ~sort_chat_log(read_file_content(last.before[d])).raised)
    =>
        /\ \A w \in last.writes :
              Range(Entries(read_file_content(fs[w])))
                  = UNION {EntriesAlone(last.before[d]) : d \in SourcesRead}
        /\ sort_chat_log(CombinedReversed(NumDirs))
              = sort_chat_log(Combined(mode, last.before))

\* a second call was made for the file after a call that ran to the end of
\* the write step, neither under DRY_RUN
Rerun == last.n >= 2 /\ last.prev_kind = "done" /\ ~last.dry

\* C17: after a call for a file has completed without DRY_RUN, a further
\* call for the same file over the same directories writes nothing and
\* leaves every copy as it is, whether FORCE is set or not.
C17_RerunWritesNothing ==
    Rerun =>
        /\ last.writes = {}
        /\ fs = last.before
        /\ status = "running"
        /\ \A force \in BOOLEAN :
              MergeAndSync(last.path, mode, last.before, last.parent_before,
                           FALSE, force).writes = {}

====
